---- MODULE Spec2Model ----
(***************************************************************************)
(* Model of the runtime adapter of edge-impulse-ffi-rs:                    *)
(*   src/src/lib.rs         EdgeImpulseError, Signal, InferenceResult,     *)
(*                          EdgeImpulseClassifier, EdgeImpulseHandle       *)
(*   src/src/runner_api.rs  EimModel, ContinuousState, MovingAverageFilter,*)
(*                          EimError                                       *)
(*   src/src/bindings_dummy.rs  the engine's status codes                  *)
(*                                                                         *)
(* The engine behind the ei_ffi_* entry points is opaque: every foreign    *)
(* call returns a status drawn from StatusCodes and, on success, a raw     *)
(* result drawn from RawResults.                                           *)
(*                                                                         *)
(* Scores are f32 in the source.  Here a score is an integer number of     *)
(* twelfths, so that the averages over 1..4 scores the smoothing filter    *)
(* computes are exact; f32 rounding is not modelled.                       *)
(***************************************************************************)
EXTENDS Integers, Sequences, FiniteSets, TLC

VARIABLES
  initialized,       \* EdgeImpulseClassifier.initialized
  handle,            \* an EdgeImpulseHandle has been constructed
  continuous_state,  \* EimModel.continuous_state (Option<ContinuousState>)
  has_anomaly,       \* ModelMetadata::has_anomaly() of the compiled model
  next_sample,       \* environment: the position in the sample stream being pushed
  total_pushed,      \* history: samples pushed by continuous calls, capped at SliceSize
  lastOp,            \* history: the last operation, its foreign calls, its return value
  live_signals,      \* heap: the ei_signal_t boxes allocated and not yet released
  conversions,       \* error mapping on its own: the latest conversions, oldest first
  maf,               \* smoothing filter on its own: the MovingAverageFilter
  maf_fed,           \* history: the scores given to maf, oldest first
  maf_out,           \* history: what update() returned for each of them
  projection,        \* result projection on its own: the raw result and what is made of it
  lifecycle,         \* a classifier's lifecycle on its own: its flag, the calls made on it,
                     \* the foreign calls they made
  download,          \* build script: a call of download_model_from_edge_impulse, its
                     \* position, its attempts counter and the requests it issued
  build              \* build script: a run of main, its environment, the files it
                     \* works on and the steps it took

\* the state of EimModel and EdgeImpulseClassifier
adapter_vars == <<initialized, handle, continuous_state, has_anomaly, next_sample,
                  total_pushed, lastOp, live_signals>>

\* the state of the components exercised on their own
unit_vars == <<conversions, maf, maf_fed, maf_out, projection, lifecycle, download, build>>

vars == <<adapter_vars, unit_vars>>

(***************************************************************************)
(* Bounds of the model.                                                    *)
(***************************************************************************)
\* ModelMetadata::label_count() of the compiled model
LabelCount == 2
\* ModelMetadata::slice_size() of the compiled model
SliceSize == 2
\* most bounding boxes in a raw result
MaxBoxes == 1

\* a slice may be empty and may be longer than the slice size
MaxSliceLen == SliceSize + 1
\* The code never inspects a sample, so the samples of the stream are told
\* apart by their position: the n-th sample pushed is the number
\* (n mod StreamPeriod) + 1, and the samples of a window and of the slice
\* pushed into it are pairwise different.
StreamPeriod == SliceSize + MaxSliceLen
\* scores the engine reports, in twelfths
Scores == {0, 12}
\* scores of raw bounding boxes, in twelfths
BoxScores == {0, 7}

RECURSIVE SeqsUpTo(_, _)
SeqsUpTo(S, n) ==
  IF n = 0 THEN {<<>>}
  ELSE LET shorter == SeqsUpTo(S, n - 1)
       IN shorter \cup {Append(s, x) : s \in {t \in shorter : Len(t) = n - 1}, x \in S}

\* the next k samples of the stream from position n
StreamSlice(n, k) == [i \in 1 .. k |-> ((n + i - 1) % StreamPeriod) + 1]

(***************************************************************************)
(* Status codes of the engine (bindings_dummy.rs).                         *)
(***************************************************************************)
EI_IMPULSE_OK == 0
EI_IMPULSE_ERROR_SHAPES_DONT_MATCH == 1
EI_IMPULSE_CANCELED == 2
EI_IMPULSE_ALLOC_FAILED == 3
EI_IMPULSE_OUT_OF_MEMORY == 4
EI_IMPULSE_INPUT_TENSOR_WAS_NULL == 5
EI_IMPULSE_OUTPUT_TENSOR_WAS_NULL == 6
EI_IMPULSE_TFLITE_ERROR == 7
EI_IMPULSE_TFLITE_ARENA_ALLOC_FAILED == 8
EI_IMPULSE_DSP_ERROR == 9
EI_IMPULSE_INVALID_SIZE == 10
EI_IMPULSE_ONLY_SUPPORTED_FOR_IMAGES == 11
EI_IMPULSE_UNSUPPORTED_INFERENCING_ENGINE == 12
EI_IMPULSE_INFERENCE_ERROR == 13

\* every code of the taxonomy, the dummy bindings' -1, one code above the range
StatusCodes == -1 .. 14

\* the closed taxonomy: the codes bindings_dummy.rs names
TaxonomyCodes ==
  {EI_IMPULSE_OK, EI_IMPULSE_ERROR_SHAPES_DONT_MATCH, EI_IMPULSE_CANCELED,
   EI_IMPULSE_ALLOC_FAILED, EI_IMPULSE_OUT_OF_MEMORY, EI_IMPULSE_INPUT_TENSOR_WAS_NULL,
   EI_IMPULSE_OUTPUT_TENSOR_WAS_NULL, EI_IMPULSE_TFLITE_ERROR,
   EI_IMPULSE_TFLITE_ARENA_ALLOC_FAILED, EI_IMPULSE_DSP_ERROR, EI_IMPULSE_INVALID_SIZE,
   EI_IMPULSE_ONLY_SUPPORTED_FOR_IMAGES, EI_IMPULSE_UNSUPPORTED_INFERENCING_ENGINE,
   EI_IMPULSE_INFERENCE_ERROR}

\* what a foreign call of the state machine may return: success, the dummy
\* bindings' -1, a code above the range, and one code for each kind of
\* EimError a status is converted to
EngineStatusCodes ==
  {-1, EI_IMPULSE_OK, EI_IMPULSE_ERROR_SHAPES_DONT_MATCH, EI_IMPULSE_DSP_ERROR,
   EI_IMPULSE_INFERENCE_ERROR, 14}

(***************************************************************************)
(* lib.rs: enum EdgeImpulseError, impl From<EI_IMPULSE_ERROR> for it        *)
(***************************************************************************)
\* the members of enum EdgeImpulseError
EdgeImpulseError ==
  {"Ok", "ShapesDontMatch", "Canceled", "MemoryAllocationFailed", "OutOfMemory",
   "InputTensorWasNull", "OutputTensorWasNull", "AllocatedTensorWasNull", "TfliteError",
   "TfliteArenaAllocFailed", "ReadSensor", "MinSizeRatio", "MaxSizeRatio",
   "OnlySupportImages", "ModelInputTensorWasNull", "ModelOutputTensorWasNull",
   "UnsupportedInferencingEngine", "AllocWhileCacheLocked", "NoValidImpulse", "Other"}

\* the conversion with no arm for a code outside the taxonomy: it fails
EdgeImpulseError_from_partial(error) ==
  CASE error = EI_IMPULSE_OK -> "Ok"
    [] error = EI_IMPULSE_ERROR_SHAPES_DONT_MATCH -> "ShapesDontMatch"
    [] error = EI_IMPULSE_CANCELED -> "Canceled"
    [] error = EI_IMPULSE_ALLOC_FAILED -> "MemoryAllocationFailed"
    [] error = EI_IMPULSE_OUT_OF_MEMORY -> "OutOfMemory"
    [] error = EI_IMPULSE_INPUT_TENSOR_WAS_NULL -> "InputTensorWasNull"
    [] error = EI_IMPULSE_OUTPUT_TENSOR_WAS_NULL -> "OutputTensorWasNull"
    [] error = EI_IMPULSE_TFLITE_ERROR -> "TfliteError"
    [] error = EI_IMPULSE_TFLITE_ARENA_ALLOC_FAILED -> "TfliteArenaAllocFailed"
    [] error = EI_IMPULSE_DSP_ERROR -> "ReadSensor"
    [] error = EI_IMPULSE_INVALID_SIZE -> "MinSizeRatio"
    [] error = EI_IMPULSE_ONLY_SUPPORTED_FOR_IMAGES -> "OnlySupportImages"
    [] error = EI_IMPULSE_UNSUPPORTED_INFERENCING_ENGINE -> "UnsupportedInferencingEngine"
    [] error = EI_IMPULSE_INFERENCE_ERROR -> "NoValidImpulse"
    [] OTHER -> "panic"

\* the conversion with two codes of the taxonomy sharing a member
EdgeImpulseError_from_merged(error) ==
  CASE error = EI_IMPULSE_OK -> "Ok"
    [] error = EI_IMPULSE_ERROR_SHAPES_DONT_MATCH -> "ShapesDontMatch"
    [] error = EI_IMPULSE_CANCELED -> "Canceled"
    [] error = EI_IMPULSE_ALLOC_FAILED -> "MemoryAllocationFailed"
    [] error = EI_IMPULSE_OUT_OF_MEMORY -> "MemoryAllocationFailed"
    [] error = EI_IMPULSE_INPUT_TENSOR_WAS_NULL -> "InputTensorWasNull"
    [] error = EI_IMPULSE_OUTPUT_TENSOR_WAS_NULL -> "OutputTensorWasNull"
    [] error = EI_IMPULSE_TFLITE_ERROR -> "TfliteError"
    [] error = EI_IMPULSE_TFLITE_ARENA_ALLOC_FAILED -> "TfliteArenaAllocFailed"
    [] error = EI_IMPULSE_DSP_ERROR -> "ReadSensor"
    [] error = EI_IMPULSE_INVALID_SIZE -> "MinSizeRatio"
    [] error = EI_IMPULSE_ONLY_SUPPORTED_FOR_IMAGES -> "OnlySupportImages"
    [] error = EI_IMPULSE_UNSUPPORTED_INFERENCING_ENGINE -> "UnsupportedInferencingEngine"
    [] error = EI_IMPULSE_INFERENCE_ERROR -> "NoValidImpulse"
    [] OTHER -> "Other"

EdgeImpulseError_from(error) ==
  CASE error = EI_IMPULSE_OK -> "Ok"
    [] error = EI_IMPULSE_ERROR_SHAPES_DONT_MATCH -> "ShapesDontMatch"
    [] error = EI_IMPULSE_CANCELED -> "Canceled"
    [] error = EI_IMPULSE_ALLOC_FAILED -> "MemoryAllocationFailed"
    [] error = EI_IMPULSE_OUT_OF_MEMORY -> "OutOfMemory"
    [] error = EI_IMPULSE_INPUT_TENSOR_WAS_NULL -> "InputTensorWasNull"
    [] error = EI_IMPULSE_OUTPUT_TENSOR_WAS_NULL -> "OutputTensorWasNull"
    [] error = EI_IMPULSE_TFLITE_ERROR -> "TfliteError"
    [] error = EI_IMPULSE_TFLITE_ARENA_ALLOC_FAILED -> "TfliteArenaAllocFailed"
    [] error = EI_IMPULSE_DSP_ERROR -> "ReadSensor"
    [] error = EI_IMPULSE_INVALID_SIZE -> "MinSizeRatio"
    [] error = EI_IMPULSE_ONLY_SUPPORTED_FOR_IMAGES -> "OnlySupportImages"
    [] error = EI_IMPULSE_UNSUPPORTED_INFERENCING_ENGINE -> "UnsupportedInferencingEngine"
    [] error = EI_IMPULSE_INFERENCE_ERROR -> "NoValidImpulse"
    [] OTHER -> "Other"

(***************************************************************************)
(* runner_api.rs: impl From<EdgeImpulseError> for EimError                 *)
(* An EimError is [kind, msg]; ModelNotInitialized carries no message.     *)
(***************************************************************************)
NoEimError == [kind |-> "None", msg |-> ""]

EimError_from(error) ==
  CASE error = "Ok" -> [kind |-> "Other", msg |-> "Unexpected OK status"]
    [] error = "ShapesDontMatch" -> [kind |-> "InvalidInput", msg |-> "Shapes don't match"]
    [] error = "Canceled" -> [kind |-> "ExecutionError", msg |-> "Operation canceled"]
    [] error = "MemoryAllocationFailed" ->
         [kind |-> "ExecutionError", msg |-> "Memory allocation failed"]
    [] error = "OutOfMemory" -> [kind |-> "ExecutionError", msg |-> "Out of memory"]
    [] error = "InputTensorWasNull" ->
         [kind |-> "InvalidInput", msg |-> "Input tensor was null"]
    [] error = "OutputTensorWasNull" ->
         [kind |-> "ExecutionError", msg |-> "Output tensor was null"]
    [] error = "AllocatedTensorWasNull" ->
         [kind |-> "ExecutionError", msg |-> "Allocated tensor was null"]
    [] error = "TfliteError" -> [kind |-> "ExecutionError", msg |-> "TensorFlow Lite error"]
    [] error = "TfliteArenaAllocFailed" ->
         [kind |-> "ExecutionError", msg |-> "TensorFlow Lite arena allocation failed"]
    [] error = "ReadSensor" ->
         [kind |-> "ExecutionError", msg |-> "Error reading sensor data"]
    [] error = "MinSizeRatio" ->
         [kind |-> "InvalidInput", msg |-> "Minimum size ratio not met"]
    [] error = "MaxSizeRatio" ->
         [kind |-> "InvalidInput", msg |-> "Maximum size ratio exceeded"]
    [] error = "OnlySupportImages" ->
         [kind |-> "InvalidInput", msg |-> "Only image input is supported"]
    [] error = "ModelInputTensorWasNull" ->
         [kind |-> "ExecutionError", msg |-> "Model input tensor was null"]
    [] error = "ModelOutputTensorWasNull" ->
         [kind |-> "ExecutionError", msg |-> "Model output tensor was null"]
    [] error = "UnsupportedInferencingEngine" ->
         [kind |-> "ExecutionError", msg |-> "Unsupported inferencing engine"]
    [] error = "AllocWhileCacheLocked" ->
         [kind |-> "ExecutionError", msg |-> "Allocation attempted while cache is locked"]
    [] error = "NoValidImpulse" -> [kind |-> "ModelNotInitialized", msg |-> ""]
    [] OTHER -> [kind |-> "Other", msg |-> "Unknown error occurred"]

(***************************************************************************)
(* The engine's raw result (ei_impulse_result_t): LabelCount classification *)
(* entries, a bounding-box array with an explicit count (the array pointer  *)
(* may be null).                                                            *)
(***************************************************************************)
RawBox == [label : {"obj"}, value : BoxScores, x : {1}, y : {2}, width : {3}, height : {4}]

RawBoxArrays ==
  {[bounding_boxes |-> b, bounding_boxes_count |-> Len(b), bounding_boxes_is_null |-> FALSE] :
     b \in SeqsUpTo(RawBox, MaxBoxes)}
  \cup {[bounding_boxes |-> <<>>, bounding_boxes_count |-> MaxBoxes,
         bounding_boxes_is_null |-> TRUE]}

\* the label strings of the engine's classification array: the categories of
\* the trained model.  The first is a string get_labels makes up as well,
\* the second is "anomaly", the others are not known to get_labels.
engine_labels ==
  [i \in 1 .. LabelCount |->
     IF i = 1 THEN "label_0" ELSE IF i = 2 THEN "anomaly" ELSE "class_" \o ToString(i - 1)]

RawResults ==
  {[classification |-> [i \in 1 .. LabelCount |-> [label |-> engine_labels[i], value |-> v[i]]],
    bounding_boxes |-> b.bounding_boxes,
    bounding_boxes_count |-> b.bounding_boxes_count,
    bounding_boxes_is_null |-> b.bounding_boxes_is_null] :
     v \in [1 .. LabelCount -> Scores], b \in RawBoxArrays}

\* the zeroed ei_impulse_result_t of InferenceResult::new(), never filled in
NoRaw ==
  [classification |-> <<>>, bounding_boxes |-> <<>>, bounding_boxes_count |-> 0,
   bounding_boxes_is_null |-> TRUE]

(***************************************************************************)
(* lib.rs: InferenceResult::classifications, InferenceResult::bounding_boxes*)
(***************************************************************************)
\* classifications clamping every score into [0, 1]
classifications_clamped(result, label_count) ==
  [i \in 1 .. label_count |->
     [label |-> result.classification[i].label,
      value |-> IF result.classification[i].value < 0 THEN 0
                ELSE IF result.classification[i].value > 12 THEN 12
                ELSE result.classification[i].value]]

classifications(result, label_count) ==
  [i \in 1 .. label_count |->
     [label |-> result.classification[i].label, value |-> result.classification[i].value]]

\* bounding_boxes keeping the boxes that score 0.0
bounding_boxes_unfiltered(result) ==
  IF result.bounding_boxes_count = 0 \/ result.bounding_boxes_is_null
  THEN <<>>
  ELSE SubSeq(result.bounding_boxes, 1, result.bounding_boxes_count)

\* bounding_boxes dropping every box that scores under one half
bounding_boxes_thresholded(result) ==
  IF result.bounding_boxes_count = 0 \/ result.bounding_boxes_is_null
  THEN <<>>
  ELSE SelectSeq(SubSeq(result.bounding_boxes, 1, result.bounding_boxes_count),
                 LAMBDA bb : bb.value >= 6)

bounding_boxes(result) ==
  IF result.bounding_boxes_count = 0 \/ result.bounding_boxes_is_null
  THEN <<>>
  ELSE SelectSeq(SubSeq(result.bounding_boxes, 1, result.bounding_boxes_count),
                 LAMBDA bb : bb.value # 0)

(***************************************************************************)
(* lib.rs: the wrappers of the foreign calls.  Each returns what the caller *)
(* sees (ok, err: an EdgeImpulseError or "None", raw: the result on success)*)
(* and the foreign calls it made with the statuses they reported.           *)
(***************************************************************************)
\* mem is the order of the foreign calls and of the allocations and releases
\* of ei_signal_t boxes; an operation that owns no box makes foreign calls only
LibOk(ffi, status, raw) ==
  [ok |-> TRUE, err |-> "None", raw |-> raw, ffi |-> ffi, statuses |-> status, mem |-> ffi]

LibErr(ffi, status, error) ==
  [ok |-> FALSE, err |-> error, raw |-> NoRaw, ffi |-> ffi, statuses |-> status, mem |-> ffi]

\* the events of the heap in mem: Box::new(ei_signal_t {..}) and the drop of the box
BoxNew == "Box::new"
BoxDrop == "Box::drop"

\* Signal::from_raw_data: the box is allocated before the foreign call; on
\* success it moves into the Signal returned, on failure it is dropped with
\* the local that holds it
Signal_from_raw_data(result) ==
  IF result = EI_IMPULSE_OK
  THEN [LibOk(<<"ei_ffi_signal_from_buffer">>, <<result>>, NoRaw)
          EXCEPT !.mem = <<BoxNew, "ei_ffi_signal_from_buffer">>]
  ELSE [LibErr(<<"ei_ffi_signal_from_buffer">>, <<result>>, EdgeImpulseError_from(result))
          EXCEPT !.mem = <<BoxNew, "ei_ffi_signal_from_buffer", BoxDrop>>]

\* EdgeImpulseHandle::new
EdgeImpulseHandle_new(result) ==
  LET error == EdgeImpulseError_from(result)
  IN IF error # "Ok"
     THEN LibErr(<<"ei_ffi_init_impulse">>, <<result>>, error)
     ELSE LibOk(<<"ei_ffi_init_impulse">>, <<result>>, NoRaw)

\* init returning the error of a status other than Ok
init_checked(result) ==
  IF result = EI_IMPULSE_OK
  THEN [initialized |-> TRUE,
        ret |-> LibOk(<<"ei_ffi_run_classifier_init">>, <<result>>, NoRaw)]
  ELSE [initialized |-> FALSE,
        ret |-> LibErr(<<"ei_ffi_run_classifier_init">>, <<result>>,
                       EdgeImpulseError_from(result))]

\* EdgeImpulseClassifier::init: the status of the foreign call is dropped
init(result) ==
  [initialized |-> TRUE,
   ret |-> LibOk(<<"ei_ffi_run_classifier_init">>, <<result>>, NoRaw)]

\* EdgeImpulseClassifier::deinit
deinit(self_initialized, result) ==
  IF self_initialized
  THEN [initialized |-> FALSE,
        ret |-> LibOk(<<"ei_ffi_run_classifier_deinit">>, <<result>>, NoRaw)]
  ELSE [initialized |-> self_initialized, ret |-> LibOk(<<>>, <<>>, NoRaw)]

\* run_classifier without the lifecycle guard
run_classifier_unguarded(self_initialized, result_code, result) ==
  IF result_code = EI_IMPULSE_OK
  THEN LibOk(<<"ei_ffi_run_classifier">>, <<result_code>>, result)
  ELSE LibErr(<<"ei_ffi_run_classifier">>, <<result_code>>,
              EdgeImpulseError_from(result_code))

\* run_classifier with the lifecycle guard inverted
run_classifier_guard_inverted(self_initialized, result_code, result) ==
  IF self_initialized
  THEN LibErr(<<>>, <<>>, "Other")
  ELSE IF result_code = EI_IMPULSE_OK
       THEN LibOk(<<"ei_ffi_run_classifier">>, <<result_code>>, result)
       ELSE LibErr(<<"ei_ffi_run_classifier">>, <<result_code>>,
                   EdgeImpulseError_from(result_code))

\* EdgeImpulseClassifier::run_classifier
run_classifier(self_initialized, result_code, result) ==
  IF ~self_initialized
  THEN LibErr(<<>>, <<>>, "Other")
  ELSE IF result_code = EI_IMPULSE_OK
       THEN LibOk(<<"ei_ffi_run_classifier">>, <<result_code>>, result)
       ELSE LibErr(<<"ei_ffi_run_classifier">>, <<result_code>>,
                   EdgeImpulseError_from(result_code))

\* run_classifier_continuous calling the engine a second time after a failure
run_classifier_continuous_retry(self_initialized, result_code, result) ==
  IF ~self_initialized
  THEN LibErr(<<>>, <<>>, "Other")
  ELSE IF result_code = EI_IMPULSE_OK
       THEN LibOk(<<"ei_ffi_run_classifier_continuous">>, <<result_code>>, result)
       ELSE LibErr(<<"ei_ffi_run_classifier_continuous", "ei_ffi_run_classifier_continuous">>,
                   <<result_code, result_code>>, EdgeImpulseError_from(result_code))

\* EdgeImpulseClassifier::run_classifier_continuous
run_classifier_continuous(self_initialized, result_code, result) ==
  IF ~self_initialized
  THEN LibErr(<<>>, <<>>, "Other")
  ELSE IF result_code = EI_IMPULSE_OK
       THEN LibOk(<<"ei_ffi_run_classifier_continuous">>, <<result_code>>, result)
       ELSE LibErr(<<"ei_ffi_run_classifier_continuous">>, <<result_code>>,
                   EdgeImpulseError_from(result_code))

\* EdgeImpulseClassifier::run_inference
run_inference(self_initialized, result_code, result) ==
  IF ~self_initialized
  THEN LibErr(<<>>, <<>>, "Other")
  ELSE LET error == EdgeImpulseError_from(result_code)
       IN IF error = "Ok"
          THEN LibOk(<<"ei_ffi_run_inference">>, <<result_code>>, result)
          ELSE LibErr(<<"ei_ffi_run_inference">>, <<result_code>>, error)

(***************************************************************************)
(* runner_api.rs: MovingAverageFilter                                       *)
(***************************************************************************)
MovingAverageFilter_new(window_size) ==
  [buffer |-> <<>>, window_size |-> window_size, sum |-> 0]

\* update leaving the running sum as it is when it pops the oldest value
MovingAverageFilter_update_stale_sum(self, value) ==
  LET popped ==
        IF Len(self.buffer) >= self.window_size /\ self.buffer # <<>>
        THEN [self EXCEPT !.buffer = Tail(self.buffer)]
        ELSE self
      pushed ==
        [popped EXCEPT !.buffer = Append(popped.buffer, value),
                       !.sum = popped.sum + value]
  IN [maf |-> pushed, out |-> pushed.sum \div Len(pushed.buffer)]

\* update that never pops: the average of every value seen
MovingAverageFilter_update_no_pop(self, value) ==
  LET pushed ==
        [self EXCEPT !.buffer = Append(self.buffer, value),
                     !.sum = self.sum + value]
  IN [maf |-> pushed, out |-> pushed.sum \div Len(pushed.buffer)]

\* returns the filter after the update and the value update() returns
MovingAverageFilter_update(self, value) ==
  LET popped ==
        IF Len(self.buffer) >= self.window_size /\ self.buffer # <<>>
        THEN [self EXCEPT !.buffer = Tail(self.buffer),
                          !.sum = self.sum - Head(self.buffer)]
        ELSE self
      pushed ==
        [popped EXCEPT !.buffer = Append(popped.buffer, value),
                       !.sum = popped.sum + value]
  IN [maf |-> pushed, out |-> pushed.sum \div Len(pushed.buffer)]

(***************************************************************************)
(* A HashMap<String, f32> is a set of <<label, value>> pairs with distinct  *)
(* labels.                                                                  *)
(***************************************************************************)
MapKeys(m) == {p[1] : p \in m}

MapGet(m, k) == (CHOOSE p \in m : p[1] = k)[2]

\* the map after inserting the entries of a sequence in order (a later
\* insert of the same label replaces the earlier one)
MapCollect(entries) ==
  {<<entries[i].label, entries[i].value>> :
     i \in {j \in 1 .. Len(entries) :
              \A k \in (j + 1) .. Len(entries) : entries[k].label # entries[j].label}}

(***************************************************************************)
(* runner_api.rs: ContinuousState                                           *)
(***************************************************************************)
\* ContinuousState::new(labels, slice_size), wrapped in Some
ContinuousState_new(labels, slice_size) ==
  [is_some |-> TRUE,
   feature_matrix |-> <<>>,
   feature_buffer_full |-> FALSE,
   maf_buffers |-> [l \in {labels[i] : i \in 1 .. Len(labels)} |-> MovingAverageFilter_new(4)],
   slice_size |-> slice_size]

\* EimModel.continuous_state == None
NoContinuousState ==
  [is_some |-> FALSE,
   feature_matrix |-> <<>>,
   feature_buffer_full |-> FALSE,
   maf_buffers |-> [l \in {} |-> MovingAverageFilter_new(4)],
   slice_size |-> 0]

\* update_features with the full flag raised one sample early
update_features_early(self, features) ==
  LET extended == self.feature_matrix \o features
  IN IF Len(extended) + 1 >= self.slice_size
     THEN [self EXCEPT
             !.feature_buffer_full = TRUE,
             !.feature_matrix =
               IF Len(extended) > self.slice_size
               THEN SubSeq(extended, Len(extended) - self.slice_size + 1, Len(extended))
               ELSE extended]
     ELSE [self EXCEPT !.feature_matrix = extended]

\* update_features trimming at the back: the oldest samples are kept
update_features_keep_oldest(self, features) ==
  LET extended == self.feature_matrix \o features
  IN IF Len(extended) >= self.slice_size
     THEN [self EXCEPT
             !.feature_buffer_full = TRUE,
             !.feature_matrix =
               IF Len(extended) > self.slice_size
               THEN SubSeq(extended, 1, self.slice_size)
               ELSE extended]
     ELSE [self EXCEPT !.feature_matrix = extended]

\* update_features without the trim
update_features_no_trim(self, features) ==
  LET extended == self.feature_matrix \o features
  IN IF Len(extended) >= self.slice_size
     THEN [self EXCEPT !.feature_buffer_full = TRUE, !.feature_matrix = extended]
     ELSE [self EXCEPT !.feature_matrix = extended]

\* update_features emptying a window that has filled up
update_features_consumed(self, features) ==
  LET extended == self.feature_matrix \o features
  IN IF Len(extended) >= self.slice_size
     THEN [self EXCEPT !.feature_buffer_full = TRUE, !.feature_matrix = <<>>]
     ELSE [self EXCEPT !.feature_matrix = extended]

\* ContinuousState::update_features
update_features(self, features) ==
  LET extended == self.feature_matrix \o features
  IN IF Len(extended) >= self.slice_size
     THEN [self EXCEPT
             !.feature_buffer_full = TRUE,
             !.feature_matrix =
               IF Len(extended) > self.slice_size
               THEN SubSeq(extended, Len(extended) - self.slice_size + 1, Len(extended))
               ELSE extended]
     ELSE [self EXCEPT !.feature_matrix = extended]

\* ContinuousState::apply_maf: the state after it and the classification after it
apply_maf(self, classification) ==
  LET smoothed == MapKeys(classification) \cap DOMAIN self.maf_buffers
      upd(l) == MovingAverageFilter_update(self.maf_buffers[l], MapGet(classification, l))
  IN [self |-> [self EXCEPT !.maf_buffers =
                  [l \in DOMAIN self.maf_buffers |->
                     IF l \in smoothed THEN upd(l).maf ELSE self.maf_buffers[l]]],
      classification |->
        {<<p[1], IF p[1] \in smoothed THEN upd(p[1]).out ELSE p[2]>> : p \in classification}]

(***************************************************************************)
(* runner_api.rs: EimModel                                                  *)
(***************************************************************************)
\* ModelParameters.use_continuous_mode as EimModel::new() sets it
use_continuous_mode == FALSE

\* EimModel::requires_continuous_mode (model_parameters is always Some)
requires_continuous_mode == use_continuous_mode

\* EimModel::get_labels
get_labels(label_count) == [i \in 1 .. label_count |-> "label_" \o ToString(i - 1)]

\* the u32 -> i32 cast of a bounding box coordinate: values above i32::MAX
\* wrap around by 2^32
AsI32(v) == IF v > 2147483647 THEN ((v - 2147483647) - 2147483647) - 2 ELSE v

NoResult ==
  [variant |-> "None", classification |-> {}, bounding_boxes |-> <<>>, anomaly |-> 0]

\* what an EimModel operation returns: Ok(InferenceResponse) or Err(EimError),
\* with the foreign calls made on the way
EimOk(result, raw, ffi, statuses, mem) ==
  [ok |-> TRUE, err |-> "None", eim |-> NoEimError, result |-> result, raw |-> raw,
   ffi |-> ffi, statuses |-> statuses, mem |-> mem]

EimErr(error, ffi, statuses, mem) ==
  [ok |-> FALSE, err |-> error, eim |-> EimError_from(error), result |-> NoResult,
   raw |-> NoRaw, ffi |-> ffi, statuses |-> statuses, mem |-> mem]

\* convert_inference_result asking for anomaly detection before it looks at
\* the bounding boxes
convert_inference_result_anomaly_first(result, anomaly_model) ==
  LET cls == classifications(result, LabelCount)
      boxes == bounding_boxes(result)
      classification_map == MapCollect(cls)
  IN IF anomaly_model
     THEN [variant |-> "VisualAnomaly",
           classification |-> {},
           bounding_boxes |-> <<>>,
           anomaly |-> IF "anomaly" \in MapKeys(classification_map)
                       THEN MapGet(classification_map, "anomaly") ELSE 0]
     ELSE IF boxes # <<>>
          THEN [variant |-> "ObjectDetection",
                classification |-> classification_map,
                bounding_boxes |->
                  [i \in 1 .. Len(boxes) |->
                     [label |-> boxes[i].label, value |-> boxes[i].value,
                      x |-> AsI32(boxes[i].x), y |-> AsI32(boxes[i].y),
                      width |-> AsI32(boxes[i].width), height |-> AsI32(boxes[i].height)]],
                anomaly |-> 0]
          ELSE [variant |-> "Classification",
                classification |-> classification_map,
                bounding_boxes |-> <<>>,
                anomaly |-> 0]

\* EimModel::convert_inference_result: the InferenceResult of the response
convert_inference_result(result, anomaly_model) ==
  LET cls == classifications(result, LabelCount)
      boxes == bounding_boxes(result)
      classification_map == MapCollect(cls)
  IN IF boxes # <<>>
     THEN [variant |-> "ObjectDetection",
           classification |-> classification_map,
           bounding_boxes |->
             [i \in 1 .. Len(boxes) |->
                [label |-> boxes[i].label, value |-> boxes[i].value,
                 x |-> AsI32(boxes[i].x), y |-> AsI32(boxes[i].y),
                 width |-> AsI32(boxes[i].width), height |-> AsI32(boxes[i].height)]],
           anomaly |-> 0]
     ELSE IF anomaly_model
          THEN [variant |-> "VisualAnomaly",
                classification |-> {},
                bounding_boxes |-> <<>>,
                anomaly |-> IF "anomaly" \in MapKeys(classification_map)
                            THEN MapGet(classification_map, "anomaly") ELSE 0]
          ELSE [variant |-> "Classification",
                classification |-> classification_map,
                bounding_boxes |-> <<>>,
                anomaly |-> 0]

\* infer_single passing each score through a filter that holds one 0.0
infer_single_smoothed(self_initialized, anomaly_model, signal_code, result_code, result) ==
  LET signal == Signal_from_raw_data(signal_code)
      r == run_classifier(self_initialized, result_code, result)
      used == MovingAverageFilter_update(MovingAverageFilter_new(4), 0).maf
      converted == convert_inference_result(r.raw, anomaly_model)
      smoothed ==
        [converted EXCEPT !.classification =
           {<<p[1], MovingAverageFilter_update(used, p[2]).out>> : p \in converted.classification}]
  IN IF ~signal.ok
     THEN EimErr(signal.err, signal.ffi, signal.statuses, signal.mem)
     ELSE IF ~r.ok
          THEN EimErr(r.err, signal.ffi \o r.ffi, signal.statuses \o r.statuses,
                      signal.mem \o r.mem \o <<BoxDrop>>)
          ELSE EimOk(smoothed, r.raw,
                     signal.ffi \o r.ffi, signal.statuses \o r.statuses,
                     signal.mem \o r.mem \o <<BoxDrop>>)

\* infer_single keeping the Signal alive when the classify call fails
infer_single_signal_leaked(self_initialized, anomaly_model, signal_code, result_code, result) ==
  LET signal == Signal_from_raw_data(signal_code)
      r == run_classifier(self_initialized, result_code, result)
  IN IF ~signal.ok
     THEN EimErr(signal.err, signal.ffi, signal.statuses, signal.mem)
     ELSE IF ~r.ok
          THEN EimErr(r.err, signal.ffi \o r.ffi, signal.statuses \o r.statuses,
                      signal.mem \o r.mem)
          ELSE EimOk(convert_inference_result(r.raw, anomaly_model), r.raw,
                     signal.ffi \o r.ffi, signal.statuses \o r.statuses,
                     signal.mem \o r.mem \o <<BoxDrop>>)

\* EimModel::infer_single.  The Signal is a local of the call: it is dropped
\* when the call returns, through the ? of the classify call or after the
\* conversion of the result.
infer_single(self_initialized, anomaly_model, signal_code, result_code, result) ==
  LET signal == Signal_from_raw_data(signal_code)
      r == run_classifier(self_initialized, result_code, result)
  IN IF ~signal.ok
     THEN EimErr(signal.err, signal.ffi, signal.statuses, signal.mem)
     ELSE IF ~r.ok
          THEN EimErr(r.err, signal.ffi \o r.ffi, signal.statuses \o r.statuses,
                      signal.mem \o r.mem \o <<BoxDrop>>)
          ELSE EimOk(convert_inference_result(r.raw, anomaly_model), r.raw,
                     signal.ffi \o r.ffi, signal.statuses \o r.statuses,
                     signal.mem \o r.mem \o <<BoxDrop>>)

\* EimModel::infer_continuous_internal: the continuous state after the call
\* and what the call returns
infer_continuous_internal(self_state, self_initialized, anomaly_model, features, signal_code, result_code, result) ==
  LET labels == get_labels(LabelCount)
      created == IF self_state.is_some THEN self_state
                 ELSE ContinuousState_new(labels, SliceSize)
      updated == update_features(created, features)
      empty_classification == {<<labels[i], 0>> : i \in 1 .. Len(labels)}
      warm == apply_maf(updated, empty_classification)
      signal == Signal_from_raw_data(signal_code)
      r == run_classifier_continuous(self_initialized, result_code, result)
  IN IF ~updated.feature_buffer_full
     THEN [continuous_state |-> warm.self,
           ret |-> EimOk([variant |-> "Classification",
                          classification |-> warm.classification,
                          bounding_boxes |-> <<>>, anomaly |-> 0],
                         NoRaw, <<>>, <<>>, <<>>)]
     ELSE IF ~signal.ok
          THEN [continuous_state |-> updated,
                ret |-> EimErr(signal.err, signal.ffi, signal.statuses, signal.mem)]
          ELSE IF ~r.ok
               THEN [continuous_state |-> updated,
                     ret |-> EimErr(r.err, signal.ffi \o r.ffi,
                                    signal.statuses \o r.statuses,
                                    signal.mem \o r.mem \o <<BoxDrop>>)]
               ELSE [continuous_state |-> updated,
                     ret |-> EimOk(convert_inference_result(r.raw, anomaly_model), r.raw,
                                   signal.ffi \o r.ffi, signal.statuses \o r.statuses,
                                   signal.mem \o r.mem \o <<BoxDrop>>)]

(***************************************************************************)
(* State machine.                                                           *)
(***************************************************************************)
\* the record of an operation of lib.rs
LibOp(op, ret) ==
  [op |-> op, ok |-> ret.ok, err |-> ret.err, eim |-> NoEimError,
   result |-> NoResult, raw |-> ret.raw, ffi |-> ret.ffi, statuses |-> ret.statuses,
   mem |-> ret.mem]

\* the record of an operation of EimModel
EimOp(op, ret) ==
  [op |-> op, ok |-> ret.ok, err |-> ret.err, eim |-> ret.eim,
   result |-> ret.result, raw |-> ret.raw, ffi |-> ret.ffi, statuses |-> ret.statuses,
   mem |-> ret.mem]

Min(a, b) == IF a < b THEN a ELSE b

\* the last n elements of a sequence (all of it when it is shorter)
KeepLast(s, n) == SubSeq(s, Len(s) - Min(n, Len(s)) + 1, Len(s))

\* what the engine may answer to the foreign calls of one inference: the
\* status of signal construction, the status of the classify call, its result
EngineAnswers ==
  {<<EI_IMPULSE_OK, EI_IMPULSE_OK, r>> : r \in RawResults}
  \cup {<<EI_IMPULSE_OK, c, NoRaw>> : c \in EngineStatusCodes \ {EI_IMPULSE_OK}}
  \cup {<<s, EI_IMPULSE_OK, NoRaw>> : s \in EngineStatusCodes \ {EI_IMPULSE_OK}}

\* the slices a caller may pass next
Slices == {StreamSlice(next_sample, k) : k \in 0 .. MaxSliceLen}

\* what an operation's allocations and releases add to the boxes on the heap
HeapChange(mem) ==
  Cardinality({i \in 1 .. Len(mem) : mem[i] = BoxNew})
  - Cardinality({i \in 1 .. Len(mem) : mem[i] = BoxDrop})

(***************************************************************************)
(* build.rs: download_model_from_edge_impulse.  The function asks the       *)
(* Studio for the project, starts a build job, polls the job's status and   *)
(* downloads the built model.  A request comes back as Err(e), with a       *)
(* status other than 200, with a body that does not parse, or with a parsed *)
(* body.                                                                    *)
(***************************************************************************)
\* const MAX_ATTEMPTS: u32 = 120
MAX_ATTEMPTS == 120

\* the ways a request fails before its body is looked at
HttpFailures == {"Err", "not 200", "unparsable"}

\* Option<T> of a field of a response
OptionNone == "None"

\* ProjectResponse { success, default_impulse_id }
ProjectResponses ==
  {[http |-> h, success |-> FALSE, default_impulse_id |-> OptionNone] : h \in HttpFailures}
  \cup {[http |-> "200", success |-> s, default_impulse_id |-> d] :
          s \in BOOLEAN, d \in {OptionNone, "Some(id)"}}

\* BuildJobResponse { success, id }
BuildJobResponses ==
  {[http |-> h, success |-> FALSE] : h \in HttpFailures}
  \cup {[http |-> "200", success |-> s] : s \in BOOLEAN}

\* JobStatusResponse { success, job: JobStatus { finished, finishedSuccessful } }
JobStatusResponses ==
  {[http |-> h, success |-> FALSE, finished |-> OptionNone,
    finished_successful |-> OptionNone] : h \in HttpFailures}
  \cup {[http |-> "200", success |-> s, finished |-> f, finished_successful |-> fs] :
          s \in BOOLEAN, f \in {OptionNone, "Some(timestamp)"},
          fs \in {OptionNone, "Some(true)", "Some(false)"}}

\* no status request has been answered
NoJobStatus ==
  [http |-> "none", success |-> FALSE, finished |-> OptionNone,
   finished_successful |-> OptionNone]

\* the download request: Err(e), a status other than 200, or the archive
DownloadResponses == {"Err", "not 200", "200"}

\* Step 1: the project information; the function goes on with a default
\* impulse id and returns false otherwise
get_project_info(response) ==
  IF response.http # "200" THEN "return false"
  ELSE IF ~response.success THEN "return false"
  ELSE IF response.default_impulse_id = OptionNone THEN "return false"
  ELSE "continue"

\* Step 2: the build job is started
trigger_build_job(response) ==
  IF response.http # "200" THEN "return false"
  ELSE IF ~response.success THEN "return false"
  ELSE "continue"

\* one turn of the polling loop in which every finished job ends the polling
\* towards the download
poll_job_status_any_finish(attempts, response) ==
  LET n == attempts + 1
  IN IF n > MAX_ATTEMPTS
       THEN [attempts |-> n, requested |-> FALSE, next |-> "return false"]
     ELSE IF response.http # "200"
       THEN [attempts |-> n, requested |-> TRUE, next |-> "return false"]
     ELSE IF ~response.success
       THEN [attempts |-> n, requested |-> TRUE, next |-> "return false"]
     ELSE IF response.finished_successful # OptionNone /\ response.finished # OptionNone
       THEN [attempts |-> n, requested |-> TRUE, next |-> "break"]
     ELSE [attempts |-> n, requested |-> TRUE, next |-> "continue"]

\* Step 3, one turn of the polling loop: attempts += 1; past MAX_ATTEMPTS the
\* function returns false before any request; otherwise the status is asked
\* for (requested) and the turn ends the function, the loop, or nothing
poll_job_status(attempts, response) ==
  LET n == attempts + 1
  IN IF n > MAX_ATTEMPTS
       THEN [attempts |-> n, requested |-> FALSE, next |-> "return false"]
     ELSE IF response.http # "200"
       THEN [attempts |-> n, requested |-> TRUE, next |-> "return false"]
     ELSE IF ~response.success
       THEN [attempts |-> n, requested |-> TRUE, next |-> "return false"]
     ELSE IF response.finished_successful # OptionNone /\ response.finished # OptionNone
       THEN IF response.finished_successful = "Some(true)"
              THEN [attempts |-> n, requested |-> TRUE, next |-> "break"]
              ELSE [attempts |-> n, requested |-> TRUE, next |-> "return false"]
     ELSE [attempts |-> n, requested |-> TRUE, next |-> "continue"]

\* Steps 4 and 5: the model directory is made, the archive is asked for
\* (requested), read and opened; files that fail to extract are skipped
download_and_extract(dir_ok, response, read_ok, zip_ok) ==
  IF ~dir_ok THEN [requested |-> FALSE, ret |-> FALSE]
  ELSE IF response # "200" THEN [requested |-> TRUE, ret |-> FALSE]
  ELSE IF ~read_ok THEN [requested |-> TRUE, ret |-> FALSE]
  ELSE IF ~zip_ok THEN [requested |-> TRUE, ret |-> FALSE]
  ELSE [requested |-> TRUE, ret |-> TRUE]

\* download_model_from_edge_impulse has not been called
DownloadNotCalled ==
  [pc |-> "Step 1", attempts |-> 0, status_requests |-> 0, download_requests |-> 0,
   last |-> NoJobStatus, ret |-> "none"]

(***************************************************************************)
(* build.rs: main.  A run of the build script acquires a model, generates   *)
(* the bindings, prepares model/build, compiles the C++ library with cmake  *)
(* and make, sets up the linking and patches the model for full TensorFlow  *)
(* Lite.                                                                    *)
(***************************************************************************)
\* has_valid_model after the attempts to acquire one: the local model, else
\* the copy from EI_MODEL, else the download from the Studio
acquire_model(valid, copied, configured, downloaded) ==
  LET after_copy == IF ~valid THEN copied ELSE valid
      after_download == IF ~after_copy THEN configured /\ downloaded ELSE after_copy
  IN [has_valid_model |-> after_download,
      steps |-> (IF ~valid THEN <<"copy_model_from_custom_path">> ELSE <<>>)
                \o (IF ~after_copy /\ configured
                      THEN <<"download_model_from_edge_impulse">> ELSE <<>>)]

\* let should_rebuild = !lib_path.exists() || env::var("FORCE_REBUILD").is_ok()
should_rebuild(lib_exists, force_rebuild) == ~lib_exists \/ force_rebuild

\* the compilation of the C++ library: cmake and make when should_rebuild,
\* each of which may fail, and nothing otherwise
compile_library(lib_exists, force_rebuild, cmake_ok, make_ok) ==
  IF should_rebuild(lib_exists, force_rebuild)
    THEN IF ~cmake_ok
           THEN [steps |-> <<"cmake">>, lib_exists |-> lib_exists, exit |-> "panic"]
         ELSE IF ~make_ok
           THEN [steps |-> <<"cmake", "make">>, lib_exists |-> lib_exists, exit |-> "panic"]
         ELSE [steps |-> <<"cmake", "make">>, lib_exists |-> TRUE, exit |-> "none"]
    ELSE [steps |-> <<"skip build">>, lib_exists |-> lib_exists, exit |-> "none"]

\* patch_model_for_full_tflite(model_dir, use_full_tflite)
patch_model_for_full_tflite(use_full_tflite) ==
  IF ~use_full_tflite THEN <<>> ELSE <<"patch_model_for_full_tflite">>

\* main has not run
BuildNotRun ==
  [pc |-> "not run", USE_FULL_TFLITE |-> FALSE, FORCE_REBUILD |-> FALSE,
   CLEAN_MODEL |-> FALSE, has_valid_model |-> FALSE, lib_exists |-> FALSE,
   lib_at_start |-> FALSE, steps |-> <<>>, exit |-> "none"]

\* the components exercised on their own are not in use
UnitsIdle ==
  /\ conversions = <<>>
  /\ maf = MovingAverageFilter_new(4)
  /\ maf_fed = <<>>
  /\ maf_out = <<>>
  /\ projection = [used |-> FALSE]
  /\ lifecycle = [initialized |-> FALSE, dropped |-> FALSE, calls |-> <<>>, ffi |-> <<>>]
  /\ download = DownloadNotCalled
  /\ build = BuildNotRun

\* EimModel::new(): EdgeImpulseClassifier::new(), classifier.init(), the
\* parameters cached, no handle, no continuous state
Init ==
  /\ \E result \in EngineStatusCodes :
       /\ initialized = init(result).initialized
       /\ lastOp = LibOp("EimModel::new", init(result).ret)
  /\ handle = FALSE
  /\ continuous_state = NoContinuousState
  /\ has_anomaly \in BOOLEAN
  /\ next_sample = 0
  /\ total_pushed = 0
  /\ live_signals = 0
  /\ UnitsIdle

\* a call of infer_continuous_internal(features, debug)
ContinuousCall(op, features, answer) ==
  LET r == infer_continuous_internal(continuous_state, initialized, has_anomaly, features, answer[1], answer[2], answer[3])
  IN /\ continuous_state' = r.continuous_state
     /\ next_sample' = (next_sample + Len(features)) % StreamPeriod
     /\ total_pushed' = Min(SliceSize, total_pushed + Len(features))
     /\ lastOp' = EimOp(op, r.ret)
     /\ live_signals' = live_signals + HeapChange(r.ret.mem)
     /\ UNCHANGED <<initialized, handle, has_anomaly>>
     /\ UNCHANGED unit_vars

\* a call of infer_single(features, debug): the features go to the engine
\* unread, and the engine's answer stands for every feature vector
SingleCall(op, answer) ==
  LET ret == infer_single(initialized, has_anomaly, answer[1], answer[2], answer[3])
  IN /\ lastOp' = EimOp(op, ret)
     /\ live_signals' = live_signals + HeapChange(ret.mem)
     /\ UNCHANGED <<initialized, handle, continuous_state, has_anomaly, next_sample,
                    total_pushed>>
     /\ UNCHANGED unit_vars

\* EimModel::infer(features, debug)
Infer ==
  \E answer \in EngineAnswers :
    IF requires_continuous_mode
    THEN \E features \in Slices : ContinuousCall("infer", features, answer)
    ELSE SingleCall("infer", answer)

\* EimModel::infer_continuous_internal(features, debug), the streaming entry
\* of the model, called on its own
InferContinuousInternal ==
  \E features \in Slices, answer \in EngineAnswers :
    ContinuousCall("infer_continuous_internal", features, answer)

Next ==
  \/ Infer
  \/ InferContinuousInternal

Spec == Init /\ [][Next]_vars

(***************************************************************************)
(* The classifier of lib.rs used directly: EdgeImpulseClassifier::new(),    *)
(* then init, deinit and the inference operations in any order.             *)
(***************************************************************************)
InitClassifier ==
  /\ initialized = FALSE
  /\ handle = FALSE
  /\ continuous_state = NoContinuousState
  /\ has_anomaly \in BOOLEAN
  /\ next_sample = 0
  /\ total_pushed = 0
  /\ live_signals = 0
  /\ lastOp = LibOp("EdgeImpulseClassifier::new", LibOk(<<>>, <<>>, NoRaw))
  /\ UnitsIdle

\* what the engine may answer to one classify call: its status, its result
ClassifyAnswers ==
  {<<EI_IMPULSE_OK, r>> : r \in RawResults}
  \cup {<<c, NoRaw>> : c \in EngineStatusCodes \ {EI_IMPULSE_OK}}

ClassifierInit ==
  \E result \in EngineStatusCodes :
    /\ initialized' = init(result).initialized
    /\ lastOp' = LibOp("init", init(result).ret)
    /\ UNCHANGED <<handle, continuous_state, has_anomaly, next_sample, total_pushed,
                   live_signals>>
    /\ UNCHANGED unit_vars

ClassifierDeinit ==
  \E result \in EngineStatusCodes :
    /\ initialized' = deinit(initialized, result).initialized
    /\ lastOp' = LibOp("deinit", deinit(initialized, result).ret)
    /\ UNCHANGED <<handle, continuous_state, has_anomaly, next_sample, total_pushed,
                   live_signals>>
    /\ UNCHANGED unit_vars

SignalFromRawData ==
  \E result \in EngineStatusCodes :
    /\ lastOp' = LibOp("Signal::from_raw_data", Signal_from_raw_data(result))
    /\ UNCHANGED <<initialized, handle, continuous_state, has_anomaly, next_sample,
                   total_pushed, live_signals>>
    /\ UNCHANGED unit_vars

\* EdgeImpulseHandle::new(): a handle exists once a construction has succeeded
HandleNew ==
  \E result \in EngineStatusCodes :
    /\ handle' = (handle \/ EdgeImpulseHandle_new(result).ok)
    /\ lastOp' = LibOp("EdgeImpulseHandle::new", EdgeImpulseHandle_new(result))
    /\ UNCHANGED <<initialized, continuous_state, has_anomaly, next_sample, total_pushed,
                   live_signals>>
    /\ UNCHANGED unit_vars

\* run_classifier(&signal, debug) on a signal constructed before
RunClassifier ==
  \E answer \in ClassifyAnswers :
    /\ lastOp' = LibOp("run_classifier", run_classifier(initialized, answer[1], answer[2]))
    /\ UNCHANGED <<initialized, handle, continuous_state, has_anomaly, next_sample,
                   total_pushed, live_signals>>
    /\ UNCHANGED unit_vars

\* run_classifier_continuous(&signal, debug, enable_maf) on a signal constructed before
RunClassifierContinuous ==
  \E answer \in ClassifyAnswers :
    /\ lastOp' = LibOp("run_classifier_continuous",
                       run_classifier_continuous(initialized, answer[1], answer[2]))
    /\ UNCHANGED <<initialized, handle, continuous_state, has_anomaly, next_sample,
                   total_pushed, live_signals>>
    /\ UNCHANGED unit_vars

\* run_inference(&mut handle, fmatrix, debug): needs a handle
RunInference ==
  /\ handle
  /\ \E answer \in ClassifyAnswers :
       /\ lastOp' = LibOp("run_inference", run_inference(initialized, answer[1], answer[2]))
       /\ UNCHANGED <<initialized, handle, continuous_state, has_anomaly, next_sample,
                      total_pushed, live_signals>>
       /\ UNCHANGED unit_vars

NextClassifier ==
  \/ ClassifierInit
  \/ ClassifierDeinit
  \/ SignalFromRawData
  \/ HandleNew
  \/ RunClassifier
  \/ RunClassifierContinuous
  \/ RunInference

SpecClassifier == InitClassifier /\ [][NextClassifier]_vars

(***************************************************************************)
(* The components exercised on their own, each from the same initial state: *)
(* no model, no classifier, nothing converted, a fresh filter, nothing      *)
(* projected.                                                               *)
(***************************************************************************)
InitUnits ==
  /\ initialized = FALSE
  /\ handle = FALSE
  /\ continuous_state = NoContinuousState
  /\ has_anomaly = FALSE
  /\ next_sample = 0
  /\ total_pushed = 0
  /\ live_signals = 0
  /\ lastOp = LibOp("None", LibOk(<<>>, <<>>, NoRaw))
  /\ UnitsIdle

\* how many conversions the history of the error mapping keeps
MaxConversions == 3

\* EdgeImpulseError::from(error) for any status code; conversions keeps the
\* latest MaxConversions of them
ConvertStatus ==
  \E error \in StatusCodes :
    /\ conversions' =
         KeepLast(Append(conversions, [code |-> error, kind |-> EdgeImpulseError_from(error)]),
                  MaxConversions)
    /\ UNCHANGED <<maf, maf_fed, maf_out, projection, lifecycle, download, build>>
    /\ UNCHANGED adapter_vars

NextErrors == ConvertStatus

SpecErrors == InitUnits /\ [][NextErrors]_vars

\* scores given to the filter on its own, in twelfths: 0.0, 1.0 and 4.0
MafScores == {0, 12, 48}

\* how many scores the filter on its own is given
MaxUpdates == 5

\* MovingAverageFilter::update(value) on the filter MovingAverageFilter::new(4) made
MafUpdate ==
  /\ Len(maf_fed) < MaxUpdates
  /\ \E value \in MafScores :
       LET r == MovingAverageFilter_update(maf, value)
       IN /\ maf' = r.maf
          /\ maf_fed' = Append(maf_fed, value)
          /\ maf_out' = Append(maf_out, r.out)
  /\ UNCHANGED <<conversions, projection, lifecycle, download, build>>
  /\ UNCHANGED adapter_vars

NextMaf == MafUpdate

SpecMaf == InitUnits /\ [][NextMaf]_vars

\* most bounding boxes in a raw result given to the projection on its own
ProjectionBoxes == MaxBoxes + 1

\* scores of the boxes given to the projection: 0.0, the lowest score above
\* it, and 0.6 to the nearest twelfth
ProjectionBoxScores == {0, 1, 7}

\* a labelled box, and a box with a null label pointer (read as the empty
\* string) whose width is i32::MAX
ProjectionRawBox ==
  {[label |-> g.label, value |-> v, x |-> g.x, y |-> g.y, width |-> g.width,
    height |-> g.height] :
     v \in ProjectionBoxScores,
     g \in {[label |-> "obj", x |-> 1, y |-> 2, width |-> 3, height |-> 4],
            [label |-> "", x |-> 0, y |-> 0, width |-> 2147483647, height |-> 5]}}

\* bounding-box arrays whose count is at most their length, and null
\* pointers with a count of zero and with a count above zero
ProjectionBoxArrays ==
  UNION {{[bounding_boxes |-> b, bounding_boxes_count |-> c, bounding_boxes_is_null |-> FALSE] :
            c \in 0 .. Len(b)} : b \in SeqsUpTo(ProjectionRawBox, ProjectionBoxes)}
  \cup {[bounding_boxes |-> <<>>, bounding_boxes_count |-> c, bounding_boxes_is_null |-> TRUE] :
          c \in {0, ProjectionBoxes}}

\* scores of the labels given to the projection, in twelfths: -1.0 and 2.0,
\* outside [0, 1], and 5/12
ProjectionScores == {-12, 5, 24}

ProjectionRawResults ==
  {[classification |-> [i \in 1 .. LabelCount |-> [label |-> engine_labels[i], value |-> v[i]]],
    bounding_boxes |-> b.bounding_boxes,
    bounding_boxes_count |-> b.bounding_boxes_count,
    bounding_boxes_is_null |-> b.bounding_boxes_is_null] :
     v \in [1 .. LabelCount -> ProjectionScores], b \in ProjectionBoxArrays}

\* EimModel::convert_inference_result(result) on a raw result, for a model
\* with and without anomaly detection; surfaced is what
\* InferenceResult::bounding_boxes() returns for it
Project ==
  /\ ~projection.used
  /\ \E result \in ProjectionRawResults, anomaly_model \in BOOLEAN :
       projection' = [used |-> TRUE, raw |-> result, anomaly_model |-> anomaly_model,
                      surfaced |-> bounding_boxes(result),
                      result |-> convert_inference_result(result, anomaly_model)]
  /\ UNCHANGED <<conversions, maf, maf_fed, maf_out, lifecycle, download, build>>
  /\ UNCHANGED adapter_vars

NextProjection == Project

SpecProjection == InitUnits /\ [][NextProjection]_vars

\* how many init and deinit calls are made on the classifier on its own
MaxLifecycleCalls == 5

\* what the foreign init and deinit may report: Ok, and the dummy bindings' -1
LifecycleStatusCodes == {EI_IMPULSE_OK, -1}

\* classifier.init() on the classifier EdgeImpulseClassifier::new() made
LifecycleInit ==
  /\ ~lifecycle.dropped
  /\ Len(lifecycle.calls) < MaxLifecycleCalls
  /\ \E result \in LifecycleStatusCodes :
       lifecycle' = [lifecycle EXCEPT
                       !.initialized = init(result).initialized,
                       !.calls = Append(@, "init"),
                       !.ffi = @ \o init(result).ret.ffi]
  /\ UNCHANGED <<conversions, maf, maf_fed, maf_out, projection, download, build>>
  /\ UNCHANGED adapter_vars

\* classifier.deinit()
LifecycleDeinit ==
  /\ ~lifecycle.dropped
  /\ Len(lifecycle.calls) < MaxLifecycleCalls
  /\ \E result \in LifecycleStatusCodes :
       lifecycle' = [lifecycle EXCEPT
                       !.initialized = deinit(lifecycle.initialized, result).initialized,
                       !.calls = Append(@, "deinit"),
                       !.ffi = @ \o deinit(lifecycle.initialized, result).ret.ffi]
  /\ UNCHANGED <<conversions, maf, maf_fed, maf_out, projection, download, build>>
  /\ UNCHANGED adapter_vars

\* the classifier goes out of scope: Drop::drop calls self.deinit()
LifecycleDrop ==
  /\ ~lifecycle.dropped
  /\ \E result \in LifecycleStatusCodes :
       lifecycle' = [lifecycle EXCEPT
                       !.initialized = deinit(lifecycle.initialized, result).initialized,
                       !.dropped = TRUE,
                       !.calls = Append(@, "drop"),
                       !.ffi = @ \o deinit(lifecycle.initialized, result).ret.ffi]
  /\ UNCHANGED <<conversions, maf, maf_fed, maf_out, projection, download, build>>
  /\ UNCHANGED adapter_vars

NextLifecycle ==
  \/ LifecycleInit
  \/ LifecycleDeinit
  \/ LifecycleDrop

SpecLifecycle == InitUnits /\ [][NextLifecycle]_vars

(***************************************************************************)
(* download_model_from_edge_impulse on its own, one action for each of its  *)
(* steps and one for each turn of its polling loop.                         *)
(***************************************************************************)
\* the function returns
DownloadReturn(ret) == IF ret THEN "true" ELSE "false"

\* Step 1: the project information is asked for
GetProjectInfo ==
  /\ download.pc = "Step 1"
  /\ \E response \in ProjectResponses :
       download' = IF get_project_info(response) = "continue"
                     THEN [download EXCEPT !.pc = "Step 2"]
                     ELSE [download EXCEPT !.pc = "returned", !.ret = "false"]
  /\ UNCHANGED <<conversions, maf, maf_fed, maf_out, projection, lifecycle, build>>
  /\ UNCHANGED adapter_vars

\* Step 2: the build job is started
TriggerBuildJob ==
  /\ download.pc = "Step 2"
  /\ \E response \in BuildJobResponses :
       download' = IF trigger_build_job(response) = "continue"
                     THEN [download EXCEPT !.pc = "Step 3"]
                     ELSE [download EXCEPT !.pc = "returned", !.ret = "false"]
  /\ UNCHANGED <<conversions, maf, maf_fed, maf_out, projection, lifecycle, build>>
  /\ UNCHANGED adapter_vars

\* Step 3: one turn of the polling loop
PollJobStatus ==
  /\ download.pc = "Step 3"
  /\ \E response \in JobStatusResponses :
       LET turn == poll_job_status(download.attempts, response)
       IN download' =
            [download EXCEPT
               !.attempts = turn.attempts,
               !.status_requests = IF turn.requested THEN @ + 1 ELSE @,
               !.last = IF turn.requested THEN response ELSE @,
               !.pc = CASE turn.next = "continue" -> "Step 3"
                        [] turn.next = "break" -> "Step 4"
                        [] OTHER -> "returned",
               !.ret = IF turn.next = "return false" THEN "false" ELSE @]
  /\ UNCHANGED <<conversions, maf, maf_fed, maf_out, projection, lifecycle, build>>
  /\ UNCHANGED adapter_vars

\* Steps 4 and 5: the built model is downloaded and extracted
DownloadAndExtract ==
  /\ download.pc = "Step 4"
  /\ \E dir_ok \in BOOLEAN, response \in DownloadResponses, read_ok \in BOOLEAN, zip_ok \in BOOLEAN :
       LET end == download_and_extract(dir_ok, response, read_ok, zip_ok)
       IN download' =
            [download EXCEPT
               !.download_requests = IF end.requested THEN @ + 1 ELSE @,
               !.pc = "returned",
               !.ret = DownloadReturn(end.ret)]
  /\ UNCHANGED <<conversions, maf, maf_fed, maf_out, projection, lifecycle, build>>
  /\ UNCHANGED adapter_vars

NextDownload ==
  \/ GetProjectInfo
  \/ TriggerBuildJob
  \/ PollJobStatus
  \/ DownloadAndExtract

SpecDownload == InitUnits /\ [][NextDownload]_vars

\* the function's thread keeps running: a step that can be taken is taken
\* (the sleep between two polls ends, a request comes back or fails)
SpecDownloadFair == SpecDownload /\ WF_vars(NextDownload)

(***************************************************************************)
(* A run of main on its own, one action for each of its sections.           *)
(***************************************************************************)
\* cargo starts the build script: the environment variables set and the
\* files present are what the run finds
BuildStart ==
  /\ build.pc = "not run"
  /\ \E valid \in BOOLEAN, lib \in BOOLEAN, full \in BOOLEAN, force \in BOOLEAN, clean \in BOOLEAN :
       build' = [pc |-> "acquire", USE_FULL_TFLITE |-> full, FORCE_REBUILD |-> force,
                 CLEAN_MODEL |-> clean, has_valid_model |-> valid, lib_exists |-> lib,
                 lib_at_start |-> lib, steps |-> <<>>, exit |-> "none"]
  /\ UNCHANGED <<conversions, maf, maf_fed, maf_out, projection, lifecycle, download>>
  /\ UNCHANGED adapter_vars

\* the model is acquired and the bindings are generated, or the run exits
\* for want of a model
AcquireModel ==
  /\ build.pc = "acquire"
  /\ \E copied \in BOOLEAN, configured \in BOOLEAN, downloaded \in BOOLEAN :
       LET got == acquire_model(build.has_valid_model, copied, configured, downloaded)
       IN build' =
            IF got.has_valid_model
              THEN [build EXCEPT
                      !.has_valid_model = TRUE,
                      !.steps = @ \o got.steps
                                  \o <<"copy_ffi_glue", "patch_model_metadata_for_visual_anomaly",
                                       "bindgen">>,
                      !.pc = "clean"]
              ELSE [build EXCEPT
                      !.steps = @ \o got.steps,
                      !.pc = "exited",
                      !.exit = "exit(1)"]
  /\ UNCHANGED <<conversions, maf, maf_fed, maf_out, projection, lifecycle, download>>
  /\ UNCHANGED adapter_vars

\* under CLEAN_MODEL the model folder is cleaned and main returns
CleanModel ==
  /\ build.pc = "clean"
  /\ build' = IF build.CLEAN_MODEL
                THEN [build EXCEPT
                        !.steps = Append(@, "clean_model_folder"),
                        !.pc = "exited",
                        !.exit = "return"]
                ELSE [build EXCEPT !.pc = "prepare"]
  /\ UNCHANGED <<conversions, maf, maf_fed, maf_out, projection, lifecycle, download>>
  /\ UNCHANGED adapter_vars

\* model/build is prepared: the glue and the TFLite files are copied, or the
\* run exits for want of them, and the static library is removed when there
PrepareBuild ==
  /\ build.pc = "prepare"
  /\ \E tflite_ok \in BOOLEAN :
       build' =
         IF ~tflite_ok
           THEN [build EXCEPT
                   !.steps = Append(@, "copy_ffi_glue"),
                   !.pc = "exited",
                   !.exit = "exit(1)"]
           ELSE [build EXCEPT
                   !.steps = @ \o <<"copy_ffi_glue", "copy tflite files">>
                               \o (IF build.lib_exists
                                     THEN <<"remove libedge-impulse-sdk.a">> ELSE <<>>),
                   !.lib_exists = FALSE,
                   !.pc = "compile"]
  /\ UNCHANGED <<conversions, maf, maf_fed, maf_out, projection, lifecycle, download>>
  /\ UNCHANGED adapter_vars

\* the C++ library is compiled when should_rebuild
CompileLibrary ==
  /\ build.pc = "compile"
  /\ \E cmake_ok \in BOOLEAN, make_ok \in BOOLEAN :
       LET made == compile_library(build.lib_exists, build.FORCE_REBUILD, cmake_ok, make_ok)
       IN build' = [build EXCEPT
                      !.steps = @ \o made.steps,
                      !.lib_exists = made.lib_exists,
                      !.exit = made.exit,
                      !.pc = IF made.exit = "none" THEN "link" ELSE "exited"]
  /\ UNCHANGED <<conversions, maf, maf_fed, maf_out, projection, lifecycle, download>>
  /\ UNCHANGED adapter_vars

\* the linking of the static library is set up and the metadata extracted
LinkLibrary ==
  /\ build.pc = "link"
  /\ build' = [build EXCEPT
                 !.steps = @ \o <<"rustc-link-lib=static=edge-impulse-sdk",
                                  "extract_and_write_model_metadata">>,
                 !.pc = "patch"]
  /\ UNCHANGED <<conversions, maf, maf_fed, maf_out, projection, lifecycle, download>>
  /\ UNCHANGED adapter_vars

\* the last statement of main: patch_model_for_full_tflite
PatchModel ==
  /\ build.pc = "patch"
  /\ build' = [build EXCEPT
                 !.steps = @ \o patch_model_for_full_tflite(build.USE_FULL_TFLITE),
                 !.pc = "exited",
                 !.exit = "return"]
  /\ UNCHANGED <<conversions, maf, maf_fed, maf_out, projection, lifecycle, download>>
  /\ UNCHANGED adapter_vars

NextBuild ==
  \/ BuildStart
  \/ AcquireModel
  \/ CleanModel
  \/ PrepareBuild
  \/ CompileLibrary
  \/ LinkLibrary
  \/ PatchModel

SpecBuild == InitUnits /\ [][NextBuild]_vars

(***************************************************************************)
(* Properties.                                                              *)
(***************************************************************************)
\* how often a foreign entry point occurs among the calls of an operation
Count(calls, entry) == Cardinality({i \in 1 .. Len(calls) : calls[i] = entry})

\* the samples a step pushes into the window, read off the stream position
Pushed == StreamSlice(next_sample, (next_sample' - next_sample + StreamPeriod) % StreamPeriod)

\* a step is a call of infer_continuous_internal
ContinuousStep == lastOp'.op = "infer_continuous_internal"

ClassifyEntries == {"ei_ffi_run_classifier", "ei_ffi_run_classifier_continuous", "ei_ffi_run_inference"}

InferenceOps == {"run_classifier", "run_classifier_continuous", "run_inference"}

\* C1: while the slices pushed by continuous calls total fewer samples than
\* the slice size, a continuous call returns Ok with a Classification that
\* maps every label of get_labels to 0, and makes no foreign call.
C1_WarmUpReturnsZeros ==
  (lastOp.op = "infer_continuous_internal" /\ total_pushed < SliceSize) =>
    /\ lastOp.ok
    /\ lastOp.result.variant = "Classification"
    /\ lastOp.result.classification =
         {<<get_labels(LabelCount)[i], 0>> : i \in 1 .. LabelCount}
    /\ lastOp.ffi = <<>>

\* several warm-up calls have been made and the window is one sample short
C1_Witness ==
  /\ lastOp.op = "infer_continuous_internal"
  /\ SliceSize > 1
  /\ total_pushed = SliceSize - 1
  /\ Len(continuous_state.maf_buffers["label_0"].buffer) >= 2

\* C2: a continuous call on a full window calls the continuous classify entry
\* point once and, when it succeeds, has passed the engine's score of every
\* label that has a filter through that filter: the filter's queue has taken
\* the score in and the returned score is the filter's average.
C2_ReadyCallSmoothsScores ==
  [][(ContinuousStep /\ continuous_state'.feature_buffer_full /\ lastOp'.ok) =>
       /\ Count(lastOp'.ffi, "ei_ffi_run_classifier_continuous") = 1
       /\ \A i \in 1 .. LabelCount :
            LET label == lastOp'.raw.classification[i].label
                score == lastOp'.raw.classification[i].value
                before == IF continuous_state.is_some /\ label \in DOMAIN continuous_state.maf_buffers
                          THEN continuous_state.maf_buffers[label]
                          ELSE MovingAverageFilter_new(4)
                after == continuous_state'.maf_buffers[label]
            IN label \in DOMAIN continuous_state'.maf_buffers =>
                 /\ after.buffer = KeepLast(Append(before.buffer, score), 4)
                 /\ \A p \in lastOp'.result.classification :
                      p[1] = label => p[2] * Len(after.buffer) = after.sum
     ]_vars

\* C3: a continuous call leaves in the window the last min(capacity, total)
\* samples of the old window followed by the new slice; pushing k samples,
\* 1 <= k <= capacity, into a window at capacity drops its k oldest samples
\* and appends the k new ones in order.
C3_FifoEviction ==
  [][ContinuousStep =>
       LET old == continuous_state.feature_matrix
           new == continuous_state'.feature_matrix
           k == Len(Pushed)
       IN /\ new = KeepLast(old \o Pushed, SliceSize)
          /\ (Len(old) = SliceSize /\ k >= 1 /\ k <= SliceSize) =>
               /\ new = SubSeq(old, k + 1, SliceSize) \o Pushed
               /\ Len(new) = SliceSize
     ]_vars

\* a full window whose oldest sample is no longer the first of the stream
C3_Witness ==
  /\ lastOp.op = "infer_continuous_internal"
  /\ continuous_state.feature_buffer_full
  /\ Len(continuous_state.feature_matrix) = SliceSize
  /\ SliceSize > 0
  /\ continuous_state.feature_matrix[1] # 1

\* C4: the window never holds more samples than the slice size.
C4_WindowWithinCapacity ==
  Len(continuous_state.feature_matrix) <= SliceSize

\* the window is full and exactly the first sample of the stream is gone:
\* more than the capacity has been pushed
C4_Witness ==
  /\ continuous_state.is_some
  /\ continuous_state.feature_matrix = StreamSlice(1, SliceSize)

\* C5: the full flag is raised by the call that brings the pushed total to
\* the slice size and is never lowered; while it is down the window holds
\* fewer samples than the slice size and never shrinks; once it is up the
\* window holds exactly the slice size after every call.
C5_ForwardOnly ==
  [][/\ continuous_state.feature_buffer_full => continuous_state'.feature_buffer_full
     /\ continuous_state'.feature_buffer_full <=> (continuous_state'.is_some /\ total_pushed' = SliceSize)
     /\ continuous_state'.feature_buffer_full =>
          Len(continuous_state'.feature_matrix) = SliceSize
     /\ ~continuous_state'.feature_buffer_full =>
          /\ Len(continuous_state'.feature_matrix) < SliceSize \/ ~continuous_state'.is_some
          /\ Len(continuous_state'.feature_matrix) >= Len(continuous_state.feature_matrix)
    ]_vars

\* a failed continuous call on a window that is still full
C5_Witness ==
  /\ lastOp.op = "infer_continuous_internal"
  /\ ~lastOp.ok
  /\ continuous_state.feature_buffer_full
  /\ Len(continuous_state.feature_matrix) = SliceSize

\* C6: a continuous call that fails has made each foreign call at most once,
\* returns the error its failing status is converted to, and leaves the
\* window as the append and trim of the new slice made it.
C6_FailureKeepsWindow ==
  [][(ContinuousStep /\ ~lastOp'.ok) =>
       LET n == Len(lastOp'.ffi)
       IN /\ continuous_state'.feature_matrix =
               KeepLast(continuous_state.feature_matrix \o Pushed, SliceSize)
          /\ continuous_state'.feature_buffer_full
          /\ n \in {1, 2}
          /\ Count(lastOp'.ffi, "ei_ffi_signal_from_buffer") = 1
          /\ Count(lastOp'.ffi, "ei_ffi_run_classifier_continuous") = n - 1
          /\ Len(lastOp'.statuses) = n
          /\ lastOp'.statuses[n] # EI_IMPULSE_OK
          /\ \A i \in 1 .. (n - 1) : lastOp'.statuses[i] = EI_IMPULSE_OK
          /\ lastOp'.eim = EimError_from(EdgeImpulseError_from(lastOp'.statuses[n]))
          /\ lastOp'.eim.kind \in {"InvalidInput", "ExecutionError", "ModelNotInitialized", "Other"}
     ]_vars

\* the continuous classify call has failed, after more than the capacity was pushed
C6_Witness ==
  /\ lastOp.op = "infer_continuous_internal"
  /\ ~lastOp.ok
  /\ Count(lastOp.ffi, "ei_ffi_run_classifier_continuous") = 1
  /\ continuous_state.feature_matrix # StreamSlice(0, SliceSize)

\* C7: an inference operation on a classifier that is not initialized returns
\* an error and makes no foreign call.
C7_LifecycleGuard ==
  (lastOp.op \in InferenceOps /\ ~initialized) =>
    /\ ~lastOp.ok
    /\ lastOp.ffi = <<>>

\* an inference operation has been refused on a classifier without init
C7_Witness ==
  /\ lastOp.op = "run_classifier"
  /\ ~initialized
  /\ ~lastOp.ok

\* C8: the error of an inference operation on a classifier that is not
\* initialized is, once converted to EimError, ModelNotInitialized.
C8_NotInitializedKind ==
  (lastOp.op \in InferenceOps /\ ~initialized) =>
    /\ ~lastOp.ok
    /\ EimError_from(lastOp.err).kind = "ModelNotInitialized"

\* C9: an operation makes each foreign call at most once, and returns an
\* error whenever one of its foreign calls reports a status other than Ok.
C9_NoStatusSwallowed ==
  /\ \A i \in 1 .. Len(lastOp.ffi) : Count(lastOp.ffi, lastOp.ffi[i]) = 1
  /\ (\E i \in 1 .. Len(lastOp.statuses) : lastOp.statuses[i] # EI_IMPULSE_OK) => ~lastOp.ok

\* C10: an inference operation leaves the initialized flag as it was, and on
\* an initialized classifier the inference operation that follows a failed
\* one calls its foreign entry point.
C10_ReusableAfterError ==
  [][lastOp'.op \in InferenceOps =>
       /\ initialized' = initialized
       /\ (lastOp.op \in InferenceOps /\ ~lastOp.ok /\ initialized) =>
            /\ Len(lastOp'.ffi) = 1
            /\ lastOp'.ffi[1] \in ClassifyEntries
     ]_vars

\* an inference operation has failed in the engine and the classifier is
\* still initialized
C10_Witness ==
  /\ lastOp.op \in InferenceOps
  /\ ~lastOp.ok
  /\ lastOp.ffi # <<>>
  /\ initialized

\* C11: the conversion of a status code is total: every code, in or out of
\* the taxonomy, is converted to a member of EdgeImpulseError, and a code
\* outside the taxonomy is converted to Other.
C11_MappingTotal ==
  \A i \in 1 .. Len(conversions) :
    /\ conversions[i].kind \in EdgeImpulseError
    /\ conversions[i].code \notin TaxonomyCodes => conversions[i].kind = "Other"

\* -1 and 14, the codes next to the taxonomy on either side, have been converted
C11_Witness ==
  /\ Len(conversions) >= 2
  /\ conversions[1].code = -1
  /\ conversions[2].code = 14
  /\ conversions[1].kind = "Other"
  /\ conversions[2].kind = "Other"

\* C12: two different codes of the taxonomy are converted to different
\* members, and a code converted again, whatever was converted in between,
\* is converted to the same member.
C12_MappingInjectiveStable ==
  [][\A i \in 1 .. Len(conversions), j \in 1 .. Len(conversions') :
       LET a == conversions[i]
           b == conversions'[j]
       IN /\ (a.code \in TaxonomyCodes /\ b.code \in TaxonomyCodes /\ a.code # b.code)
               => a.kind # b.kind
          /\ a.code = b.code => a.kind = b.kind
    ]_vars

\* a code of the taxonomy has been converted, then another, then the first again
C12_Witness ==
  /\ Len(conversions) >= 3
  /\ conversions[1] = [code |-> EI_IMPULSE_DSP_ERROR, kind |-> "ReadSensor"]
  /\ conversions[2] = [code |-> EI_IMPULSE_INVALID_SIZE, kind |-> "MinSizeRatio"]
  /\ conversions[3] = conversions[1]

\* C13: an inference operation whose signal construction reports a status
\* other than Ok, whichever it is, fails with an error of the InvalidInput
\* kind and calls no classify entry point.
C13_SignalFailureIsInvalidInput ==
  (/\ lastOp.op \in {"infer", "infer_continuous_internal"}
   /\ lastOp.ffi # <<>>
   /\ lastOp.ffi[1] = "ei_ffi_signal_from_buffer"
   /\ lastOp.statuses[1] # EI_IMPULSE_OK) =>
    /\ ~lastOp.ok
    /\ lastOp.eim.kind = "InvalidInput"
    /\ \A i \in 1 .. Len(lastOp.ffi) : lastOp.ffi[i] \notin ClassifyEntries

\* the positions of an event in the order of events of an operation
Positions(mem, events) == {i \in 1 .. Len(mem) : mem[i] \in events}

\* C14: no signal box outlives the inference call that allocated it.  A call
\* whose signal construction succeeds allocates one box, makes its classify
\* call while the box is allocated and releases the box once, as the last
\* thing it does, whether the classify call succeeds or fails; a call whose
\* signal construction fails has released the box by the time it returns.
\* Allocations and releases balance over any sequence of calls.
C14_SignalReleasedOnce ==
  /\ live_signals = 0
  /\ (lastOp.op \in {"infer", "infer_continuous_internal"} /\ lastOp.ffi # <<>>) =>
       LET mem == lastOp.mem
           news == Positions(mem, {BoxNew})
           drops == Positions(mem, {BoxDrop})
           calls == Positions(mem, ClassifyEntries)
       IN /\ news = {1}
          /\ drops = {Len(mem)}
          /\ \A c \in calls : 1 < c /\ c < Len(mem)
          /\ lastOp.statuses[1] = EI_IMPULSE_OK => Cardinality(calls) = 1
          /\ lastOp.statuses[1] # EI_IMPULSE_OK => calls = {}

\* the engine has failed a one-shot classify call on a signal that was
\* constructed, and the signal has been released after it
C14_Witness ==
  /\ lastOp.op = "infer"
  /\ ~lastOp.ok
  /\ lastOp.mem = <<BoxNew, "ei_ffi_signal_from_buffer", "ei_ffi_run_classifier", BoxDrop>>
  /\ live_signals = 0

RECURSIVE SumSeq(_)
\* the sum of a sequence of scores
SumSeq(s) == IF s = <<>> THEN 0 ELSE Head(s) + SumSeq(Tail(s))

ScoredLabels(op) ==
  MapKeys(op.result.classification)
  \cup {op.raw.classification[i].label : i \in 1 .. Len(op.raw.classification)}

\* C17: filters are created lazily.  A continuous call creates a filter only
\* for a label it has a score for; every label it has a score for has a
\* filter afterwards, and the filter created for a label scored for the first
\* time has taken that score in.
C17_FiltersCreatedLazily ==
  [][ContinuousStep =>
       LET before == DOMAIN continuous_state.maf_buffers
           after == DOMAIN continuous_state'.maf_buffers
           scored == ScoredLabels(lastOp')
       IN /\ (after \ before) \subseteq scored
          /\ scored \subseteq after
          /\ \A l \in (scored \cap after) \ before :
               Len(continuous_state'.maf_buffers[l].buffer) = 1
     ]_vars

\* C18: a call of infer takes the one-shot path; it leaves the continuous
\* state (window, full flag, every filter) as it was, and when it succeeds
\* the scores it returns are the engine's, label by label, with no filter
\* applied.
C18_OneShotLeavesSmoothingAlone ==
  [][lastOp'.op = "infer" =>
       /\ continuous_state' = continuous_state
       /\ lastOp'.ok =>
            LET raw == lastOp'.raw.classification
                engine == {<<raw[i].label, raw[i].value>> : i \in 1 .. Len(raw)}
            IN /\ lastOp'.ffi = <<"ei_ffi_signal_from_buffer", "ei_ffi_run_classifier">>
               /\ lastOp'.result.variant \in {"Classification", "ObjectDetection"} =>
                    lastOp'.result.classification = engine
               /\ lastOp'.result.variant = "VisualAnomaly" =>
                    <<"anomaly", lastOp'.result.anomaly>> \in engine
     ]_vars

\* a one-shot call has returned the engine's 1.0 for label_0 while the
\* filter of label_0 holds the zeros of two warm-up calls
C18_Witness ==
  /\ lastOp.op = "infer"
  /\ lastOp.ok
  /\ <<"label_0", 12>> \in lastOp.result.classification
  /\ continuous_state.is_some
  /\ continuous_state.maf_buffers["label_0"].buffer = <<0, 0>>

\* the boxes of a raw result the engine counts: none behind a null pointer
CountedBoxes(raw) ==
  IF raw.bounding_boxes_is_null THEN <<>>
  ELSE SubSeq(raw.bounding_boxes, 1, raw.bounding_boxes_count)

\* the k-th smallest member of a set of positions
Nth(S, k) == CHOOSE i \in S : Cardinality({j \in S : j < i}) = k - 1

\* C19: the projection produces one variant: ObjectDetection when a bounding
\* box is surfaced, which is when a counted raw box scores other than 0;
\* otherwise VisualAnomaly when the model has anomaly detection; otherwise
\* Classification.
C19_ProjectionPriority ==
  projection.used =>
    LET counted == CountedBoxes(projection.raw)
        some_box == \E i \in 1 .. Len(counted) : counted[i].value # 0
        variant == projection.result.variant
    IN /\ variant \in {"ObjectDetection", "VisualAnomaly", "Classification"}
       /\ (projection.surfaced # <<>>) <=> some_box
       /\ (variant = "ObjectDetection") <=> some_box
       /\ (variant = "VisualAnomaly") <=> (~some_box /\ projection.anomaly_model)
       /\ (variant = "Classification") <=> (~some_box /\ ~projection.anomaly_model)
       /\ (projection.result.bounding_boxes # <<>>) <=> (variant = "ObjectDetection")

\* a box that scores above 0 on a model with anomaly detection
C19_Witness ==
  /\ projection.used
  /\ projection.anomaly_model
  /\ \E i \in 1 .. Len(CountedBoxes(projection.raw)) : CountedBoxes(projection.raw)[i].value # 0
  /\ projection.result.variant = "ObjectDetection"

\* C20: the boxes surfaced, by InferenceResult::bounding_boxes and in the
\* response, are the counted raw boxes that score other than 0, in their
\* order, each with its label, score and rectangle; scores 0.0, 0.6 give the
\* one box that scores 0.6.
C20_BoxFiltering ==
  projection.used =>
    LET counted == CountedBoxes(projection.raw)
        kept == {i \in 1 .. Len(counted) : counted[i].value # 0}
        out == projection.result.bounding_boxes
    IN /\ Len(out) = Cardinality(kept)
       /\ \A k \in 1 .. Len(out) : out[k] = counted[Nth(kept, k)]
       /\ projection.surfaced = out
       /\ (Len(counted) = 2 /\ counted[1].value = 0 /\ counted[2].value = 7) =>
            (Len(out) = 1 /\ out[1] = counted[2])

\* raw scores 0.0, 0.6: the one box surfaced is the second
C20_Witness ==
  /\ projection.used
  /\ Len(CountedBoxes(projection.raw)) = 2
  /\ CountedBoxes(projection.raw)[1].value = 0
  /\ CountedBoxes(projection.raw)[2].value = 7
  /\ Len(projection.result.bounding_boxes) = 1
  /\ projection.result.bounding_boxes[1].value = 7

\* C21: the classification of a Classification or ObjectDetection result has
\* the labels of the raw result, which are pairwise different, as its keys
\* and gives each the score the engine reported for it, also when the score
\* is outside [0, 1].
C21_ScoresPassThrough ==
  (projection.used /\ projection.result.variant \in {"Classification", "ObjectDetection"}) =>
    LET raw == projection.raw.classification
        out == projection.result.classification
    IN /\ MapKeys(out) = {raw[i].label : i \in 1 .. LabelCount}
       /\ Cardinality(out) = LabelCount
       /\ \A i \in 1 .. LabelCount : MapGet(out, raw[i].label) = raw[i].value

\* a result whose first label scores 2.0 and whose second scores -1.0
C21_Witness ==
  /\ projection.used
  /\ projection.result.variant = "Classification"
  /\ LabelCount >= 2
  /\ <<engine_labels[1], 24>> \in projection.result.classification
  /\ <<engine_labels[2], -12>> \in projection.result.classification

LifecycleOps == {"init", "deinit"}

\* C22: init and deinit return Ok whatever the engine reports; init leaves
\* the classifier initialized, deinit leaves it not initialized, and no other
\* operation changes the flag: the flag is up exactly when the last lifecycle
\* call was init.
C22_LifecycleAlwaysOk ==
  [][/\ lastOp'.op \in LifecycleOps => lastOp'.ok
     /\ lastOp'.op = "init" => initialized'
     /\ lastOp'.op = "deinit" => ~initialized'
     /\ lastOp'.op \notin LifecycleOps => initialized' = initialized
    ]_vars

\* deinit has returned Ok on an initialized classifier although the engine
\* reported -1
C22_Witness ==
  /\ lastOp.op = "deinit"
  /\ lastOp.ok
  /\ lastOp.statuses = <<-1>>
  /\ ~initialized

\* C23: the public infer streams: every call of infer on a model made by
\* EimModel::new() leaves a continuous state in place, the first call
\* creating it, and a call that finds the window full and builds its signal
\* calls the continuous classify entry point, never the one-shot one.
C23_PublicInferStreams ==
  [][lastOp'.op = "infer" =>
       /\ continuous_state'.is_some
       /\ "ei_ffi_run_classifier" \notin {lastOp'.ffi[i] : i \in 1 .. Len(lastOp'.ffi)}
       /\ (continuous_state'.feature_buffer_full /\ Len(lastOp'.ffi) = 2) =>
            lastOp'.ffi[2] = "ei_ffi_run_classifier_continuous"
     ]_vars

\* C24: a continuous call that leaves the window short of full leaves every
\* filter as it was, a filter it has just created being empty: the queues
\* hold nothing but scores the engine reported.
C24_WarmUpKeepsFilters ==
  [][(ContinuousStep /\ ~continuous_state'.feature_buffer_full) =>
       \A l \in DOMAIN continuous_state'.maf_buffers :
         continuous_state'.maf_buffers[l] =
           IF l \in DOMAIN continuous_state.maf_buffers
           THEN continuous_state.maf_buffers[l]
           ELSE MovingAverageFilter_new(4)
     ]_vars

\* C26: an inference of EimModel fails with ModelNotInitialized only on a
\* classifier that is not initialized: no status the engine reports to an
\* initialized classifier comes back as ModelNotInitialized.
C26_NotInitializedReserved ==
  (lastOp.op \in {"infer", "infer_continuous_internal"} /\ ~lastOp.ok
     /\ lastOp.eim.kind = "ModelNotInitialized") => ~initialized

C27_InitDeinitBalanced ==
  [][LET inits == Count(lifecycle'.ffi, "ei_ffi_run_classifier_init")
         deinits == Count(lifecycle'.ffi, "ei_ffi_run_classifier_deinit")
     IN /\ deinits > Count(lifecycle.ffi, "ei_ffi_run_classifier_deinit") =>
             lifecycle.initialized
        /\ deinits <= inits
        /\ lifecycle'.dropped => deinits = inits
    ]_vars

\* C28: the polling loop of download_model_from_edge_impulse issues at most
\* MAX_ATTEMPTS status requests; it goes on to the download step only on a
\* status response with a finished timestamp and finishedSuccessful true; a
\* failed or unsuccessful status response, a job finished unsuccessfully and
\* the start of the attempt after the MAX_ATTEMPTS-th each make the function
\* return false with no download request issued; and the function returns.
C28_PollingTerminates ==
  /\ [](download.status_requests <= MAX_ATTEMPTS)
  /\ [][download.pc = "Step 3" /\ download' # download =>
          LET asked == download'.status_requests = download.status_requests + 1
              answer == download'.last
              failed == \/ answer.http # "200"
                        \/ ~answer.success
                        \/ /\ answer.finished # OptionNone
                           /\ answer.finished_successful = "Some(false)"
              gave_up == /\ download'.ret = "false"
                         /\ download'.pc = "returned"
                         /\ download'.download_requests = 0
          IN /\ download'.pc = "Step 4" =>
                  /\ asked
                  /\ answer.http = "200" /\ answer.success
                  /\ answer.finished # OptionNone
                  /\ answer.finished_successful = "Some(true)"
             /\ asked /\ failed => gave_up
             /\ download.attempts = MAX_ATTEMPTS => ~asked /\ gave_up
             /\ asked <=> download.attempts < MAX_ATTEMPTS
       ]_vars
  /\ <>(download.pc = "returned")

\* the polling gave up at the start of the attempt after the MAX_ATTEMPTS-th,
\* having asked MAX_ATTEMPTS times for the status of a job that never finished
C28_Witness ==
  /\ download.pc = "returned"
  /\ download.ret = "false"
  /\ download.attempts = MAX_ATTEMPTS + 1
  /\ download.status_requests = MAX_ATTEMPTS
  /\ download.download_requests = 0
  /\ download.last.http = "200" /\ download.last.success

\* the steps of a run at which the step named was taken
StepsAt(name) == {i \in 1 .. Len(build.steps) : build.steps[i] = name}

\* the steps of a run that acquire or set up the model
AcquisitionSteps ==
  {"copy_model_from_custom_path", "download_model_from_edge_impulse", "bindgen"}

\* C29: in a run with USE_FULL_TFLITE set, once cmake or make has been
\* invoked patch_model_for_full_tflite has run, before them and after the
\* steps that acquire the model.
C29_PatchBeforeCompile ==
  build.USE_FULL_TFLITE =>
    \A c \in StepsAt("cmake") \cup StepsAt("make") :
      \E p \in StepsAt("patch_model_for_full_tflite") :
        /\ p < c
        /\ \A a \in 1 .. Len(build.steps) : build.steps[a] \in AcquisitionSteps => a < p

\* C30: in a run with a valid model that found model/build/libedge-impulse-sdk.a
\* at its start and has no FORCE_REBUILD, cmake and make are not invoked.
C30_RebuildSkipped ==
  build.has_valid_model /\ build.lib_at_start /\ ~build.FORCE_REBUILD =>
    /\ StepsAt("cmake") = {}
    /\ StepsAt("make") = {}

====
